---- MODULE Spec2Model ----
(***************************************************************************)
(* A model of the university recommendation backend:                       *)
(*   backend/recommendations/langchain_service_fast.py                     *)
(*       UniversityRecommendationService (index restore/build, scoring,    *)
(*       ranking)                                                          *)
(*   backend/recommendations/views.py                                      *)
(*       get_recommendation_service (lazy singleton) and the               *)
(*       get_recommendations view                                          *)
(*                                                                         *)
(* Python values are modelled as follows.                                  *)
(*   None            the empty tuple, None == << >>                        *)
(*   a present value the one-element tuple Some(x) == << x >>              *)
(*   str             a sequence of one-character strings                   *)
(*   float           an exact rational [n |-> numerator, d |-> denom]      *)
(*   dict            a record; dict.get(k) reads the field (None if the    *)
(*                   key is missing)                                       *)
(***************************************************************************)
EXTENDS Integers, Sequences, FiniteSets, TLC

VARIABLES
    catalog,      \* the rows of the dataset file (settings.UNIVERSITY_DATASET_PATH)
    cache,        \* the vector_store_cache directory: "absent", "corrupt" or Some(index)
    providerUp,   \* whether the embedding provider answers
    dist,         \* the index's answer: query -> (document number -> distance)
    hasService,   \* hasattr(get_recommendation_service, '_service')
    service,      \* get_recommendation_service._service: None or Some(object id)
    objs,         \* the heap: object id -> UniversityRecommendationService fields
    pc,           \* each request thread's position
    local,        \* each request thread's local variables
    submissions,  \* rows of UserSubmission
    served,       \* requests started so far
    call,         \* a direct call of a service method: its arguments and result
    authdb,       \* the authentication tables: the user's row, profile, history
    authreq,      \* each authentication request thread's position and locals
    authServed    \* authentication requests started so far

authVars == << authdb, authreq, authServed >>
serverVars == << catalog, cache, providerUp, dist, hasService, service, objs, pc,
                 local, submissions, served, call >>
vars == << catalog, cache, providerUp, dist, hasService, service, objs, pc, local,
           submissions, served, call, authdb, authreq, authServed >>

----------------------------------------------------------------------------
(* Python values *)

None == << >>
Some(x) == << x >>
Val(v) == v[1]

\* truth value of an optional str / list / number as Python's `if x:` sees it
TruthySeq(v) == v # None /\ Val(v) # << >>
TruthyNum(v) == v # None /\ Val(v) # 0
TruthyRat(v) == v # None /\ Val(v).n # 0

\* exact rationals standing for Python floats
Rat(n, d) == [n |-> n, d |-> d]
RatLe(a, b) == a.n * b.d <= b.n * a.d
RatLt(a, b) == a.n * b.d < b.n * a.d
RatEq(a, b) == a.n * b.d = b.n * a.d
RatAdd(a, b) == Rat(a.n * b.d + b.n * a.d, a.d * b.d)
RatSub(a, b) == Rat(a.n * b.d - b.n * a.d, a.d * b.d)
RatDiv(a, k) == Rat(a.n, a.d * k)

\* str.lower()
LowerChar(ch) ==
    CASE ch = "C" -> "c"
      [] ch = "S" -> "s"
      [] ch = "M" -> "m"
      [] ch = "E" -> "e"
      [] OTHER -> ch
Lower(s) == [i \in 1..Len(s) |-> LowerChar(s[i])]

\* `sub in s` for two str: sub occurs in s as a contiguous substring
Contains(sub, s) ==
    \E i \in 0..(Len(s) - Len(sub)) :
        \A j \in 1..Len(sub) : s[i + j] = sub[j]

\* `x in lst` for a list
InList(x, lst) == \E i \in 1..Len(lst) : lst[i] = x

----------------------------------------------------------------------------
(* Match Scorer: _calculate_match_percentage *)

W_PROGRAM == 25
W_PROGRAM_PARTIAL == 20
W_LEVEL == 15
W_COUNTRY == 20
W_UNIVERSITY_TYPE == 15
W_TUITION == 15
W_RANK == 10

\* the two tests of the program category (lines 279 and 281)
ParentCourseMatch(md, p) ==
    /\ TruthySeq(md.parent_course)
    /\ Contains(Lower(Val(p.desired_program)), Lower(Val(md.parent_course)))
\* CourseNameMatch comparing without .lower()
CourseNameMatch_caseSensitive(md, p) ==
    /\ TruthySeq(md.course_name)
    /\ Contains(Val(p.desired_program), Val(md.course_name))

CourseNameMatch(md, p) ==
    /\ TruthySeq(md.course_name)
    /\ Contains(Lower(Val(p.desired_program)), Lower(Val(md.course_name)))

\* ProgramPoints with the elif of line 281 written as a second if: a record that
\* matches on both names earns 25 + 20
ProgramPoints_bothBranches(md, p) ==
    IF TruthySeq(p.desired_program)
    THEN << W_PROGRAM,
            (IF ParentCourseMatch(md, p) THEN W_PROGRAM ELSE 0)
            + (IF CourseNameMatch(md, p) THEN W_PROGRAM_PARTIAL ELSE 0) >>
    ELSE << 0, 0 >>

\* per category: << added to total_points, added to match_points >>
ProgramPoints(md, p) ==
    IF TruthySeq(p.desired_program)
    THEN << W_PROGRAM,
            IF ParentCourseMatch(md, p) THEN W_PROGRAM
            ELSE IF CourseNameMatch(md, p) THEN W_PROGRAM_PARTIAL
            ELSE 0 >>
    ELSE << 0, 0 >>

\* LevelPoints counting the level category as possible when no level is given
LevelPoints_countsAbsent(md, p) ==
    IF TruthySeq(p.program_level)
    THEN << W_LEVEL,
            IF /\ TruthySeq(md.program_type)
               /\ Contains(Lower(Val(p.program_level)), Lower(Val(md.program_type)))
            THEN W_LEVEL ELSE 0 >>
    ELSE << W_LEVEL, 0 >>

LevelPoints(md, p) ==
    IF TruthySeq(p.program_level)
    THEN << W_LEVEL,
            IF /\ TruthySeq(md.program_type)
               /\ Contains(Lower(Val(p.program_level)), Lower(Val(md.program_type)))
            THEN W_LEVEL ELSE 0 >>
    ELSE << 0, 0 >>

CountryPoints(md, p) ==
    IF TruthySeq(p.preferred_countries)
    THEN << W_COUNTRY,
            IF /\ TruthySeq(md.country)
               /\ InList(Val(md.country), Val(p.preferred_countries))
            THEN W_COUNTRY ELSE 0 >>
    ELSE << 0, 0 >>

UniversityTypePoints(md, p) ==
    IF TruthySeq(p.university_types)
    THEN << W_UNIVERSITY_TYPE,
            IF /\ TruthySeq(md.university_type)
               /\ InList(Val(md.university_type), Val(p.university_types))
            THEN W_UNIVERSITY_TYPE ELSE 0 >>
    ELSE << 0, 0 >>

TuitionPoints(md, p) ==
    IF TruthyNum(p.max_tuition_usd) /\ TruthyNum(md.tuition_usd)
    THEN << W_TUITION,
            IF Val(md.tuition_usd) <= Val(p.max_tuition_usd) THEN W_TUITION ELSE 0 >>
    ELSE << 0, 0 >>

RankPoints(md, p) ==
    IF TruthyNum(p.min_global_rank) /\ TruthyNum(md.global_rank)
    THEN << W_RANK,
            IF Val(md.global_rank) <= Val(p.min_global_rank) THEN W_RANK ELSE 0 >>
    ELSE << 0, 0 >>

CategoryPoints(md, p) ==
    << ProgramPoints(md, p), LevelPoints(md, p), CountryPoints(md, p),
       UniversityTypePoints(md, p), TuitionPoints(md, p), RankPoints(md, p) >>

RECURSIVE SumField(_, _)
SumField(s, k) == IF s = << >> THEN 0 ELSE Head(s)[k] + SumField(Tail(s), k)

total_points(md, p) == SumField(CategoryPoints(md, p), 1)
match_points(md, p) == SumField(CategoryPoints(md, p), 2)

\* MatchPercentageOf giving 100 when no category applies
MatchPercentageOf_fullWhenEmpty(mp, tp) ==
    IF tp > 0 THEN Rat(mp * 100, tp) ELSE Rat(100, 1)

\* line 314: (match_points / total_points * 100) if total_points > 0 else 0
MatchPercentageOf(mp, tp) == IF tp > 0 THEN Rat(mp * 100, tp) ELSE Rat(0, 1)

calculate_match_percentage(md, p) ==
    MatchPercentageOf(match_points(md, p), total_points(md, p))

----------------------------------------------------------------------------
(* Reasoning: _generate_fallback_reasoning *)

Str_NA == << "N", "A" >>

\* f"{x:.1f}" for x >= 0: x rounded to one decimal, ties to even, as a number of
\* tenths
FormatOneDecimal(x) ==
    LET scaled == x.n * 10
        q == scaled \div x.d
        twice == 2 * (scaled % x.d)
    IN  IF twice > x.d \/ (twice = x.d /\ q % 2 = 1) THEN q + 1 ELSE q

\* lines 319-363: the reasons, each the text of its f-string and the value it
\* formats into it (None for a reason without a value)
fallback_reasons(md, p) ==
       (IF /\ TruthySeq(p.desired_program)
           /\ TruthySeq(md.parent_course)
           /\ Contains(Lower(Val(p.desired_program)), Lower(Val(md.parent_course)))
        THEN << << "Perfect program match: ", p.desired_program >> >> ELSE << >>)
    \o (IF /\ TruthySeq(p.preferred_countries)
           /\ TruthySeq(md.country)
           /\ InList(Val(md.country), Val(p.preferred_countries))
        THEN << << "Located in your preferred country: ", md.country >> >> ELSE << >>)
    \o (IF /\ TruthyNum(p.max_tuition_usd)
           /\ TruthyNum(md.tuition_usd)
           /\ Val(md.tuition_usd) <= Val(p.max_tuition_usd)
        THEN << << "Within your budget: $", md.tuition_usd >> >> ELSE << >>)
    \o (IF /\ TruthyNum(p.min_global_rank)
           /\ TruthyNum(md.global_rank)
           /\ Val(md.global_rank) <= Val(p.min_global_rank)
        THEN << << "Meets your ranking criteria: #", md.global_rank >> >> ELSE << >>)
    \o (IF /\ TruthySeq(p.university_types)
           /\ TruthySeq(md.university_type)
           /\ InList(Val(md.university_type), Val(p.university_types))
        THEN << << "University type matches: ", md.university_type >> >> ELSE << >>)
    \o (IF TruthyNum(md.scholarship_count) /\ Val(md.scholarship_count) > 0
        THEN << << "Offers scholarship opportunities", md.scholarship_count >> >>
        ELSE << >>)
    \o (IF TruthySeq(md.is_gre_required) /\ Val(md.is_gre_required) # Str_NA
        THEN << << "GRE requirement: ", md.is_gre_required >> >> ELSE << >>)
    \o (IF TruthyRat(md.university_quality)
        THEN IF RatLt(Rat(8, 10), Val(md.university_quality))
             THEN << << "High university quality score", None >> >>
             ELSE IF RatLt(Rat(6, 10), Val(md.university_quality))
                  THEN << << "Good university quality score", None >> >>
                  ELSE << >>
        ELSE << >>)
    \o (IF TruthyRat(md.tuition_affordability)
        THEN IF RatLt(Rat(7, 10), Val(md.tuition_affordability))
             THEN << << "Highly affordable tuition", None >> >>
             ELSE IF RatLt(Rat(5, 10), Val(md.tuition_affordability))
                  THEN << << "Moderately affordable tuition", None >> >>
                  ELSE << >>
        ELSE << >>)

\* lines 365-370: the sentence; percent is match_percentage as {:.1f} prints it
generate_fallback_reasoning(md, p, match_percentage) ==
    LET reasons == fallback_reasons(md, p)
    IN  [ percent |-> FormatOneDecimal(match_percentage),
          text    |-> IF reasons # << >> THEN "Key factors: "
                      ELSE "based on program, location, and cost factors",
          reasons |-> reasons ]

----------------------------------------------------------------------------
(* Query Synthesizer: _create_query_from_preferences *)

\* sep.join(parts) for a list of str
RECURSIVE JoinStr(_, _)
JoinStr(parts, sep) ==
    IF parts = << >> THEN << >>
    ELSE IF Len(parts) = 1 THEN parts[1]
    ELSE parts[1] \o sep \o JoinStr(Tail(parts), sep)

Labelled_valueOnly(label, value) == value

\* f"{label}{value}": the label is one token of the query text
Labelled(label, value) == << label >> \o value

create_query_from_preferences(p) ==
    LET query_parts ==
            (IF TruthySeq(p.desired_program)
             THEN << Labelled("Program: ", Val(p.desired_program)) >> ELSE << >>)
         \o (IF TruthySeq(p.program_level)
             THEN << Labelled("Level: ", Val(p.program_level)) >> ELSE << >>)
         \o (IF TruthySeq(p.program_type)
             THEN << Labelled("Degree: ", Val(p.program_type)) >> ELSE << >>)
         \o (IF TruthySeq(p.preferred_countries)
             THEN << Labelled("Countries: ",
                              JoinStr(Val(p.preferred_countries), << ",", " " >>)) >>
             ELSE << >>)
         \o (IF TruthySeq(p.preferred_locations)
             THEN << Labelled("Locations: ",
                              JoinStr(Val(p.preferred_locations), << ",", " " >>)) >>
             ELSE << >>)
         \o (IF TruthySeq(p.university_types)
             THEN << Labelled("University Types: ",
                              JoinStr(Val(p.university_types), << ",", " " >>)) >>
             ELSE << >>)
         \o (IF TruthySeq(p.additional_preferences)
             THEN << Labelled("Additional: ", Val(p.additional_preferences)) >>
             ELSE << >>)
    IN  JoinStr(query_parts, << " " >>)

----------------------------------------------------------------------------
(* Catalog and Embedding Index *)

\* the metadata dict _load_data attaches to a row's Document (lines 94-120)
Metadata(row) ==
    [ course_id       |-> row.university_course_id,
      course_name     |-> row.university_course_name,
      program_type    |-> row.program_type,
      parent_course   |-> row.parent_course_name,
      country         |-> row.country_name,
      global_rank     |-> row.university_global_rank,
      tuition_usd     |-> row.university_course_tuition_usd,
      university_type |-> row.university_type,
      scholarship_count     |-> row.scholarship_count,
      is_gre_required       |-> row.is_gre_required,
      university_quality    |-> row.university_quality,
      tuition_affordability |-> row.tuition_affordability ]

BuildIndex_skipsLast(data) == [i \in 1..(Len(data) - 1) |-> Metadata(data[i])]

\* FAISS.from_documents over one Document per row, in row order
BuildIndex(data) == [i \in 1..Len(data) |-> Metadata(data[i])]

\* distances are multiples of 1/DistUnits; the largest is (DistUnits + ExtraDist)/DistUnits,
\* so an un-normalised L2 distance above 1 occurs
DistUnits == 1
ExtraDist == 1
Distances == 0..(DistUnits + ExtraDist)

\* document numbers of an index in ascending distance (ties: lower number first)
RECURSIVE NearestFirst(_, _)
NearestFirst(d, todo) ==
    IF todo = {} THEN << >>
    ELSE LET i == CHOOSE x \in todo :
                     \A y \in todo : d[x] < d[y] \/ (d[x] = d[y] /\ x <= y)
         IN  << i >> \o NearestFirst(d, todo \ {i})

Min(a, b) == IF a <= b THEN a ELSE b

\* the (doc, score) pairs of the documents numbered in order
RECURSIVE Scored(_, _, _)
Scored(index, d, order) ==
    IF order = << >> THEN << >>
    ELSE << [doc |-> index[Head(order)], score |-> Rat(d[Head(order)], DistUnits)] >>
         \o Scored(index, d, Tail(order))

\* vector_store.similarity_search_with_score(query, k): the k nearest (doc, score)
\* pairs, closest first; d is the index's distance of the query to each document
similarity_search_with_score(index, d, k) ==
    Scored(index, d, SubSeq(NearestFirst(d, DOMAIN index), 1, Min(k, Len(index))))

----------------------------------------------------------------------------
(* Recommendation Ranker: get_recommendations of the service *)

One == Rat(1, 1)

\* line 218: (match_percentage + (1 - float(score))) / 2
RelevanceScore(match_percentage, score) ==
    RatDiv(RatAdd(match_percentage, RatSub(One, score)), 2)

\* lines 181-219: the recommendation dict of one candidate
Recommendation(cand, p) ==
    LET match_percentage == calculate_match_percentage(cand.doc, p)
        llm_reasoning == generate_fallback_reasoning(cand.doc, p, match_percentage)
    IN  [ course_id        |-> cand.doc.course_id,
          course_name      |-> cand.doc.course_name,
          parent_course    |-> cand.doc.parent_course,
          country          |-> cand.doc.country,
          tuition_usd      |-> cand.doc.tuition_usd,
          global_rank      |-> cand.doc.global_rank,
          similarity_score |-> cand.score,
          match_percentage |-> match_percentage,
          llm_reasoning    |-> llm_reasoning,
          relevance_score  |-> RelevanceScore(match_percentage, cand.score) ]

\* InsertByRelevance placing an element before the elements of equal relevance
RECURSIVE InsertByRelevance_unstable(_, _)
InsertByRelevance_unstable(x, sorted) ==
    IF sorted = << >> THEN << x >>
    ELSE IF RatLe(Head(sorted).relevance_score, x.relevance_score)
         THEN << x >> \o sorted
         ELSE << Head(sorted) >> \o InsertByRelevance_unstable(x, Tail(sorted))

\* list.sort(key=relevance_score, reverse=True): stable, equal keys keep their order
RECURSIVE InsertByRelevance(_, _)
InsertByRelevance(x, sorted) ==
    IF sorted = << >> THEN << x >>
    ELSE IF RatLt(Head(sorted).relevance_score, x.relevance_score)
         THEN << x >> \o sorted
         ELSE << Head(sorted) >> \o InsertByRelevance(x, Tail(sorted))

RECURSIVE SortByRelevance(_)
SortByRelevance(recs) ==
    IF recs = << >> THEN << >>
    ELSE InsertByRelevance(recs[Len(recs)],
                           SortByRelevance(SubSeq(recs, 1, Len(recs) - 1)))

\* Truncate as recommendations[-top_k:], the last top_k entries
Truncate_fromEnd(recs, top_k) ==
    IF top_k > 0 /\ top_k < Len(recs)
    THEN SubSeq(recs, Len(recs) - top_k + 1, Len(recs))
    ELSE recs

\* recommendations[:top_k] (a negative top_k drops from the end)
Truncate(recs, top_k) ==
    IF top_k >= 0 THEN SubSeq(recs, 1, Min(top_k, Len(recs)))
    ELSE SubSeq(recs, 1, Len(recs) + top_k)

\* whether the try block (lines 160-231) raises: the vector store is missing, the
\* query cannot be embedded, or the index rejects k = 2 * top_k <= 0
SearchRaises(self, up, top_k) ==
    \/ self.vector_store = None
    \/ ~up
    \/ top_k * 2 <= 0

\* lines 176-221: the loop appending one recommendation per candidate
RECURSIVE Recommendations(_, _)
Recommendations(similar_docs, p) ==
    IF similar_docs = << >> THEN << >>
    ELSE << Recommendation(Head(similar_docs), p) >>
         \o Recommendations(Tail(similar_docs), p)

\* the result of a failed call: the except branch (lines 233-238) returns []
Failed(self, top_k) ==
    [ret |-> << >>, caught |-> TRUE, self |-> self,
     k |-> top_k * 2, similar_docs |-> << >>, ranked |-> << >>]

\* lines 176-231 over the candidates the index returned for k: ranked is the list
\* after the sort of line 224, ret the list returned
Ranked(self, p, top_k, k, similar_docs) ==
    LET ranked == SortByRelevance(Recommendations(similar_docs, p))
    IN  [ret |-> Truncate(ranked, top_k), caught |-> FALSE, self |-> self,
         k |-> k, similar_docs |-> similar_docs, ranked |-> ranked]

\* lines 163-170: the candidates of the index for the query of p
Search(self, p, k, d) ==
    similarity_search_with_score(Val(self.vector_store),
                                 d[create_query_from_preferences(p)], k)

\* get_recommendations with an except branch that also drops the vector store
get_recommendations_resets(self, p, top_k, d, up) ==
    IF SearchRaises(self, up, top_k)
    THEN Failed([self EXCEPT !.vector_store = None], top_k)
    ELSE Ranked(self, p, top_k, top_k * 2, Search(self, p, top_k * 2, d))

\* get_recommendations asking the index for top_k candidates instead of 2 * top_k
get_recommendations_singleWindow(self, p, top_k, d, up) ==
    IF SearchRaises(self, up, top_k)
    THEN Failed(self, top_k)
    ELSE Ranked(self, p, top_k, top_k, Search(self, p, top_k, d))

\* get_recommendations removing the documents it retrieved from the vector store
get_recommendations_consumes(self, p, top_k, d, up) ==
    IF SearchRaises(self, up, top_k)
    THEN Failed(self, top_k)
    ELSE Ranked([self EXCEPT !.vector_store = Some(<< >>)], p, top_k, top_k * 2,
                Search(self, p, top_k * 2, d))

\* get_recommendations(self, user_preferences, top_k): ret is the returned list,
\* caught records that the except branch (lines 233-238) produced it, self is the
\* object after the call (the method assigns to none of its fields); k is the
\* number of candidates asked of the index and similar_docs what it returned
get_recommendations(self, p, top_k, d, up) ==
    IF SearchRaises(self, up, top_k)
    THEN Failed(self, top_k)
    ELSE Ranked(self, p, top_k, top_k * 2, Search(self, p, top_k * 2, d))

DEFAULT_TOP_K == 10

----------------------------------------------------------------------------
(* Option lists: get_available_programs and get_available_countries *)

\* the characters of the catalog's names in code point order
CodePoints ==
    << " ", "A", "B", "C", "D", "E", "F", "G", "H", "I", "J", "K", "L", "M", "N",
       "O", "P", "Q", "R", "S", "T", "U", "V", "W", "X", "Y", "Z",
       "a", "b", "c", "d", "e", "f", "g", "h", "i", "j", "k", "l", "m", "n",
       "o", "p", "q", "r", "s", "t", "u", "v", "w", "x", "y", "z" >>

ord(c) == CHOOSE i \in 1..Len(CodePoints) : CodePoints[i] = c

\* str.__lt__: the first differing character decides, a proper prefix is less
RECURSIVE StrLt(_, _)
StrLt(a, b) ==
    IF b = << >> THEN FALSE
    ELSE IF a = << >> THEN TRUE
    ELSE IF a[1] = b[1] THEN StrLt(Tail(a), Tail(b))
    ELSE ord(a[1]) < ord(b[1])

\* counts[key] = counts.get(key, 0) + 1 on a dict held as its items, in
\* insertion order
DictIncrement(counts, key) ==
    IF \E i \in 1..Len(counts) : counts[i][1] = key
    THEN [i \in 1..Len(counts) |->
             IF counts[i][1] = key THEN << key, counts[i][2] + 1 >> ELSE counts[i]]
    ELSE Append(counts, << key, 1 >>)

\* the loop over self.university_data: items with a truthy field are counted
RECURSIVE FieldCounts(_, _, _)
FieldCounts(data, field, counts) ==
    IF data = << >> THEN counts
    ELSE FieldCounts(Tail(data), field,
                     IF TruthySeq(Head(data)[field])
                     THEN DictIncrement(counts, Val(Head(data)[field]))
                     ELSE counts)

PopularityKeyLt_nameOnly(a, b) == StrLt(a[1], b[1])

\* key=lambda x: (-x[1], x[0]) compared as tuples
PopularityKeyLt(a, b) ==
    IF a[2] # b[2] THEN -a[2] < -b[2] ELSE StrLt(a[1], b[1])

\* sorted(): stable, an item goes before the first item with a greater key
RECURSIVE InsertByKey(_, _)
InsertByKey(sorted, x) ==
    IF sorted = << >> THEN << x >>
    ELSE IF PopularityKeyLt(x, Head(sorted)) THEN << x >> \o sorted
    ELSE << Head(sorted) >> \o InsertByKey(Tail(sorted), x)

RECURSIVE SortedByKey(_)
SortedByKey(items) ==
    IF items = << >> THEN << >>
    ELSE InsertByKey(SortedByKey(SubSeq(items, 1, Len(items) - 1)),
                     items[Len(items)])

\* the body the two methods share, on their field
AvailableByPopularity(self, field) ==
    IF self.university_data = None \/ self.university_data = Some(<< >>) THEN << >>
    ELSE LET sorted_items ==
                 SortedByKey(FieldCounts(Val(self.university_data), field, << >>))
         IN  [i \in 1..Len(sorted_items) |-> sorted_items[i][1]]

get_available_programs(self) == AvailableByPopularity(self, "parent_course_name")

get_available_countries(self) == AvailableByPopularity(self, "country_name")

----------------------------------------------------------------------------
(* Input data *)

Str_Cs == << "C", "s" >>
Str_cS == << "c", "S" >>
Str_cS_lab == << "c", "S", " ", "l" >>
Str_Eng == << "E" >>
Str_M == << "M" >>
Str_ms == << "m", "s" >>
Str_b == << "b" >>
Str_CA == << "C", "A" >>
Str_US == << "U", "S" >>
Str_Public == << "P", "u" >>
Str_Private == << "P", "r" >>

MaxTuition == 1
MaxRank == 2

\* an optional amount in 0..max
OptNum(lo, hi) == {None} \cup {Some(n) : n \in lo..hi}

\* the course metadata the scorer is tried on
MetadataPool ==
    [ course_id       : {Some(1)},
      parent_course   : {None, Some(Str_cS), Some(Str_Eng)},
      course_name     : {None, Some(Str_cS_lab)},
      program_type    : {None, Some(Str_ms), Some(Str_b)},
      country         : {Some(Str_US), Some(Str_CA)},
      university_type : {None, Some(Str_Public)},
      tuition_usd     : OptNum(0, MaxTuition),
      global_rank     : OptNum(1, MaxRank),
      scholarship_count     : {Some(2)},
      is_gre_required       : {Some(Str_NA)},
      university_quality    : {Some(Rat(7, 10))},
      tuition_affordability : {None} ]

\* the user preferences the scorer is tried on: a missing key (None), an empty
\* value and a set value for the categories
PreferencesPool ==
    [ desired_program        : {None, Some(<< >>), Some(Str_Cs)},
      program_level          : {None, Some(Str_M)},
      program_type           : {None},
      preferred_countries    : {None, Some(<< >>), Some(<< Str_CA, Str_US >>)},
      preferred_locations    : {None},
      university_types       : {None, Some(<< Str_Public >>)},
      max_tuition_usd        : OptNum(0, MaxTuition),
      min_global_rank        : OptNum(1, 1),
      additional_preferences : {None},
      gpa                    : {None} ]

\* the dataset file (settings.UNIVERSITY_DATASET_PATH): rows keyed as in the JSON
Row(id, parent, name, ptype, country, utype, tuition, rank) ==
    [ university_course_id          |-> Some(id),
      parent_course_name            |-> parent,
      university_course_name        |-> name,
      program_type                  |-> ptype,
      country_name                  |-> country,
      university_type               |-> utype,
      university_course_tuition_usd |-> tuition,
      university_global_rank        |-> rank,
      scholarship_count             |-> Some(2),
      is_gre_required               |-> Some(Str_NA),
      university_quality            |-> Some(Rat(7, 10)),
      tuition_affordability         |-> None ]

AllRows ==
    << Row(1, Some(Str_cS), Some(Str_cS_lab), Some(Str_ms), Some(Str_CA),
           Some(Str_Public), Some(1), Some(1)),
       Row(2, Some(Str_Eng), None, Some(Str_b), Some(Str_US),
           Some(Str_Private), None, Some(2)),
       Row(3, Some(Str_Eng), Some(Str_cS_lab), Some(Str_ms), Some(Str_US),
           Some(Str_Public), Some(1), None) >>

NumCourses == 2
Dataset == SubSeq(AllRows, 1, NumCourses)

\* the request bodies the view is tried on: both carry the same preferences; the
\* second carries a gpa the UserSubmission serializer rejects (max_digits = 3)
BasePreferences ==
    [ desired_program        |-> Some(Str_Cs),
      program_level          |-> Some(Str_M),
      program_type           |-> Some(Str_M),
      preferred_countries    |-> Some(<< Str_CA >>),
      preferred_locations    |-> None,
      university_types       |-> None,
      max_tuition_usd        |-> Some(1),
      min_global_rank        |-> None,
      additional_preferences |-> None,
      gpa                    |-> None ]

RequestBodies == { BasePreferences, [BasePreferences EXCEPT !.gpa = Some(10)] }

Queries == { create_query_from_preferences(b) : b \in RequestBodies }

\* UserSubmissionCreateSerializer.is_valid(): the three CharFields are required and
\* not blank; gpa has max_digits = 3, decimal_places = 2
is_valid(data) ==
    /\ TruthySeq(data.desired_program)
    /\ TruthySeq(data.program_level)
    /\ TruthySeq(data.program_type)
    /\ (IF data.gpa = None THEN TRUE ELSE Val(data.gpa) < 10)

----------------------------------------------------------------------------
(* Authentication: authentication/views.py over the rows of one user *)

\* two request threads; at most MaxAuthRequests requests are taken and at most
\* MaxTokens reset tokens are generated (uuid4 values are numbered as generated)
AuthThreads == {1, 2}
MaxAuthRequests == 4
MaxTokens == 2

\* the password the user registered with and the one a reset sets
Passwords == {"registered", "reset"}

\* the user's auth_user row
InitialUser ==
    [ password |-> "registered", last_login |-> None,
      email_verification_token |-> None, email_verification_expires |-> None ]

\* the tables: the user's row, profile.login_count, the number of LoginHistory rows
\* and whether an authtoken Token row exists; generated counts the uuid4 calls and
\* used collects the reset tokens a confirm completed with
AuthDbInit ==
    [ user |-> InitialUser, login_count |-> 0, login_history |-> 0,
      token_row |-> FALSE, generated |-> 0, used |-> {} ]

\* a request thread: the view it runs ("none", "login", "reset_request",
\* "reset_confirm"), its position, the model instances it loaded, its input token
\* and its response status (0: none yet); afterUse and latest record whether, when
\* the confirm found the user, its token had been used and was the last generated
IdleAuthReq ==
    [ view |-> "none", at |-> "idle", user |-> None, login_count |-> None,
      token |-> None, status |-> 0, afterUse |-> FALSE, latest |-> TRUE ]

AuthIdle ==
    /\ authdb = AuthDbInit
    /\ authreq = [h \in AuthThreads |-> IdleAuthReq]
    /\ authServed = 0

\* UserLoginView.post lines 83-91: the serializer loads the user by email and
\* authenticates the password (400 when it is wrong); Token.objects.get_or_create
LoginBegin(h) ==
    /\ authreq[h].at = "idle"
    /\ authServed < MaxAuthRequests
    /\ authServed' = authServed + 1
    /\ \E password \in Passwords :
           IF password = authdb.user.password
           THEN /\ authreq' = [authreq EXCEPT ![h] =
                       [IdleAuthReq EXCEPT !.view = "login", !.at = "login_valid",
                                           !.user = Some(authdb.user)]]
                /\ authdb' = [authdb EXCEPT !.token_row = TRUE]
           ELSE /\ authreq' = [authreq EXCEPT ![h] =
                       [IdleAuthReq EXCEPT !.view = "login", !.at = "done",
                                           !.status = 400]]
                /\ authdb' = authdb
    /\ UNCHANGED serverVars

\* lines 94-106: user.last_login = now and user.save() write every column of the
\* loaded instance; a LoginHistory row is created; user.profile is loaded
LoginRecord(h) ==
    /\ authreq[h].at = "login_valid"
    /\ authdb' = [authdb EXCEPT
                     !.user = [Val(authreq[h].user) EXCEPT !.last_login = Some("now")],
                     !.login_history = @ + 1]
    /\ authreq' = [authreq EXCEPT ![h].at = "login_count",
                                  ![h].login_count = Some(authdb.login_count)]
    /\ UNCHANGED << authServed, serverVars >>

\* lines 107-117: profile.login_count += 1 on the loaded profile; profile.save()
LoginCount(h) ==
    /\ authreq[h].at = "login_count"
    /\ authdb' = [authdb EXCEPT !.login_count = Val(authreq[h].login_count) + 1]
    /\ authreq' = [authreq EXCEPT ![h].at = "done", ![h].status = 200]
    /\ UNCHANGED << authServed, serverVars >>

\* PasswordResetRequestView.post lines 321-324: the serializer finds the email and
\* the user is loaded
ResetRequestBegin(h) ==
    /\ authreq[h].at = "idle"
    /\ authServed < MaxAuthRequests
    /\ authdb.generated < MaxTokens
    /\ authServed' = authServed + 1
    /\ authreq' = [authreq EXCEPT ![h] =
           [IdleAuthReq EXCEPT !.view = "reset_request", !.at = "request_loaded",
                               !.user = Some(authdb.user)]]
    /\ UNCHANGED << authdb, serverVars >>

\* lines 327-341: a new uuid4 token and its expiry are set on the loaded instance;
\* user.save() writes every column; the token is returned
ResetRequestSave(h) ==
    /\ authreq[h].at = "request_loaded"
    /\ LET reset_token == authdb.generated + 1
       IN  /\ authdb' = [authdb EXCEPT
                   !.user = [Val(authreq[h].user) EXCEPT
                                !.email_verification_token = Some(reset_token),
                                !.email_verification_expires = Some("in 24 hours")],
                   !.generated = reset_token]
           /\ authreq' = [authreq EXCEPT ![h].at = "done", ![h].status = 200,
                                         ![h].token = Some(reset_token)]
    /\ UNCHANGED << authServed, serverVars >>

\* PasswordResetConfirmView.post lines 374-391: the user holding the token, not
\* expired, is loaded; 400 token_error when there is none
ResetConfirmBegin(h) ==
    /\ authreq[h].at = "idle"
    /\ authServed < MaxAuthRequests
    /\ authServed' = authServed + 1
    /\ \E token \in 1..MaxTokens :
           IF /\ authdb.user.email_verification_token = Some(token)
              /\ authdb.user.email_verification_expires # None
           THEN authreq' = [authreq EXCEPT ![h] =
                    [IdleAuthReq EXCEPT !.view = "reset_confirm", !.at = "confirm_found",
                                        !.user = Some(authdb.user),
                                        !.token = Some(token),
                                        !.afterUse = token \in authdb.used,
                                        !.latest = (token = authdb.generated)]]
           ELSE authreq' = [authreq EXCEPT ![h] =
                    [IdleAuthReq EXCEPT !.view = "reset_confirm", !.at = "done",
                                        !.token = Some(token), !.status = 400]]
    /\ UNCHANGED << authdb, serverVars >>

\* lines 394-407: the new password is set and the token cleared on the loaded
\* instance; user.save() writes every column; the user's Token rows are deleted
ResetConfirmSave(h) ==
    /\ authreq[h].at = "confirm_found"
    /\ authdb' = [authdb EXCEPT
                     !.user = [Val(authreq[h].user) EXCEPT
                                  !.password = "reset",
                                  !.email_verification_token = None,
                                  !.email_verification_expires = None],
                     !.token_row = FALSE,
                     !.used = @ \cup {Val(authreq[h].token)}]
    /\ authreq' = [authreq EXCEPT ![h].at = "done", ![h].status = 200]
    /\ UNCHANGED << authServed, serverVars >>

\* the response is sent; the thread takes the next request
AuthFinish(h) ==
    /\ authreq[h].at = "done"
    /\ authreq' = [authreq EXCEPT ![h] = IdleAuthReq]
    /\ UNCHANGED << authdb, authServed, serverVars >>

----------------------------------------------------------------------------
(* State of the running server *)

\* two request threads of the server; at most MaxRequests requests are taken
Threads == {1, 2}
MaxRequests == 2

AbsentCache == [state |-> "absent", index |-> << >>]
CorruptCache == [state |-> "corrupt", index |-> << >>]
ValidCache(index) == [state |-> "valid", index |-> index]

\* a UniversityRecommendationService object; constructed and built are history:
\* __init__ returned normally, and _load_data reached FAISS.from_documents
NoObject ==
    [ allocated |-> FALSE, vector_store |-> None, university_data |-> None,
      constructed |-> FALSE, built |-> FALSE ]
NewObject == [NoObject EXCEPT !.allocated = TRUE]

\* a request thread's locals; status 0 is "no response yet"; caught, restoreFailed,
\* build ("none", "ok", "failed"), buildError (what made the build raise: "none",
\* "dataset", "provider", "no documents") and saveFailed are history of what the
\* request went through; view is the view the request is for ("recommend" or
\* "health") and ready the flag of a health response
InitLocal ==
    [ view |-> "recommend", data |-> BasePreferences, service |-> None,
      submission |-> None, recommendations |-> << >>, status |-> 0, body |-> << >>,
      ready |-> FALSE,
      caught |-> FALSE, restoreFailed |-> FALSE, build |-> "none",
      buildError |-> "none", saveFailed |-> FALSE ]

NoCall == [fn |-> "none"]

\* the index's answers the server is tried with: every document at distance 0, the
\* second document closer than the first, and a distance above 1
ServerDistances ==
    { [i \in 1..NumCourses |-> 0],
      [i \in 1..NumCourses |-> IF i = 1 THEN DistUnits ELSE 0],
      [i \in 1..NumCourses |-> IF i = 1 THEN 0 ELSE DistUnits + ExtraDist] }

\* the dataset file holds the courses or no row at all; a readable cache is one
\* that an earlier run of the server saved for the same file
ServerInit ==
    /\ catalog \in {Dataset, << >>}
    /\ cache \in {AbsentCache, CorruptCache}
                   \cup (IF catalog # << >> THEN {ValidCache(BuildIndex(catalog))} ELSE {})
    /\ providerUp \in BOOLEAN
    /\ dist \in [Queries -> ServerDistances]
    /\ hasService = FALSE
    /\ service = None
    /\ objs = [t \in Threads |-> NoObject]
    /\ pc = [t \in Threads |-> "idle"]
    /\ local = [t \in Threads |-> InitLocal]
    /\ submissions = << >>
    /\ served = 0

Init == ServerInit /\ call = NoCall /\ AuthIdle

----------------------------------------------------------------------------
(* views.get_recommendations up to the call of get_recommendation_service *)

\* views.py lines 79-85 and 22: a request arrives and get_recommendation_service
\* tests hasattr(get_recommendation_service, '_service')
ReceiveRequest(t) ==
    /\ pc[t] = "idle"
    /\ served < MaxRequests
    /\ \E data \in RequestBodies :
           local' = [local EXCEPT ![t] = [InitLocal EXCEPT !.data = data]]
    /\ served' = served + 1
    /\ pc' = [pc EXCEPT ![t] = IF ~hasService THEN "init" ELSE "gs_return"]
    /\ UNCHANGED << authVars, catalog, cache, providerUp, dist, hasService, service, objs, submissions, call >>

----------------------------------------------------------------------------
(* UniversityRecommendationService.__init__, run by thread t on object t *)

\* lines 20-32: the fields are set to None, then os.path.exists(cache_path)
InitBegin(t) ==
    /\ pc[t] = "init"
    /\ objs' = [objs EXCEPT ![t] = NewObject]
    /\ pc' = [pc EXCEPT ![t] = IF cache.state # "absent" THEN "restore" ELSE "build"]
    /\ UNCHANGED << authVars, catalog, cache, providerUp, dist, hasService, service, local,
                    submissions, served, call >>

\* lines 36-40: FAISS.load_local and _load_data_minimal succeed; __init__ returns
RestoreLoaded(t) ==
    /\ pc[t] = "restore"
    /\ cache.state = "valid"
    /\ objs' = [objs EXCEPT ![t].vector_store = Some(cache.index),
                            ![t].university_data = Some(catalog),
                            ![t].constructed = TRUE]
    /\ pc' = [pc EXCEPT ![t] = "gs_assign"]
    /\ UNCHANGED << authVars, catalog, cache, providerUp, dist, hasService, service, local,
                    submissions, served, call >>

\* RestoreCorrupt without the try/except of lines 33-42: the error leaves __init__
RestoreCorrupt_raises(t) ==
    /\ pc[t] = "restore"
    /\ cache.state # "valid"
    /\ local' = [local EXCEPT ![t].restoreFailed = TRUE]
    /\ pc' = [pc EXCEPT ![t] = "gs_except"]
    /\ UNCHANGED << authVars, catalog, cache, providerUp, dist, hasService, service, objs,
                    submissions, served, call >>

\* lines 36-42: FAISS.load_local raises on an unreadable cache; the except branch
\* logs it and __init__ goes on to build
RestoreCorrupt(t) ==
    /\ pc[t] = "restore"
    /\ cache.state # "valid"
    /\ local' = [local EXCEPT ![t].restoreFailed = TRUE]
    /\ pc' = [pc EXCEPT ![t] = "build"]
    /\ UNCHANGED << authVars, catalog, cache, providerUp, dist, hasService, service, objs,
                    submissions, served, call >>

\* lines 36-42: load_local succeeds, then _load_data_minimal raises (the dataset
\* cannot be read); the vector store stays set and __init__ goes on to build
RestoreDataFail(t) ==
    /\ pc[t] = "restore"
    /\ cache.state = "valid"
    /\ objs' = [objs EXCEPT ![t].vector_store = Some(cache.index)]
    /\ local' = [local EXCEPT ![t].restoreFailed = TRUE]
    /\ pc' = [pc EXCEPT ![t] = "build"]
    /\ UNCHANGED << authVars, catalog, cache, providerUp, dist, hasService, service,
                    submissions, served, call >>

\* BuildDataFail with the error swallowed: __init__ returns
BuildDataFail_returns(t) ==
    /\ pc[t] = "build"
    /\ local' = [local EXCEPT ![t].build = "failed", ![t].buildError = "dataset"]
    /\ pc' = [pc EXCEPT ![t] = "gs_assign"]
    /\ UNCHANGED << authVars, catalog, cache, providerUp, dist, hasService, service, objs,
                    submissions, served, call >>

\* _load_data lines 64-66 raise: the dataset cannot be read; __init__ raises
BuildDataFail(t) ==
    /\ pc[t] = "build"
    /\ local' = [local EXCEPT ![t].build = "failed", ![t].buildError = "dataset"]
    /\ pc' = [pc EXCEPT ![t] = "gs_except"]
    /\ UNCHANGED << authVars, catalog, cache, providerUp, dist, hasService, service, objs,
                    submissions, served, call >>

\* _load_data line 132 raises: the embedding provider does not answer, or there is
\* no document to embed (FAISS.from_documents reads the dimension of the first
\* embedding); university_data is already set; __init__ raises
BuildEmbedFail(t) ==
    /\ pc[t] = "build"
    /\ (~providerUp \/ catalog = << >>)
    /\ objs' = [objs EXCEPT ![t].university_data = Some(catalog),
                            ![t].built = TRUE]
    /\ local' = [local EXCEPT ![t].build = "failed",
                              ![t].buildError = IF providerUp THEN "no documents"
                                                ELSE "provider"]
    /\ pc' = [pc EXCEPT ![t] = "gs_except"]
    /\ UNCHANGED << authVars, catalog, cache, providerUp, dist, hasService, service,
                    submissions, served, call >>

\* _load_data lines 64-134 succeed
BuildOk(t) ==
    /\ pc[t] = "build"
    /\ providerUp /\ catalog # << >>
    /\ objs' = [objs EXCEPT ![t].university_data = Some(catalog),
                            ![t].vector_store = Some(BuildIndex(catalog)),
                            ![t].built = TRUE]
    /\ local' = [local EXCEPT ![t].build = "ok"]
    /\ pc' = [pc EXCEPT ![t] = "save"]
    /\ UNCHANGED << authVars, catalog, cache, providerUp, dist, hasService, service,
                    submissions, served, call >>

\* lines 49-52: the cache is written; __init__ returns
SaveOk(t) ==
    /\ pc[t] = "save"
    /\ cache' = ValidCache(Val(objs[t].vector_store))
    /\ objs' = [objs EXCEPT ![t].constructed = TRUE]
    /\ pc' = [pc EXCEPT ![t] = "gs_assign"]
    /\ UNCHANGED << authVars, catalog, providerUp, dist, hasService, service, local,
                    submissions, served, call >>

\* SaveFail without the try/except of lines 49-54: the error leaves __init__
SaveFail_raises(t) ==
    /\ pc[t] = "save"
    /\ cache' \in {cache, CorruptCache}
    /\ local' = [local EXCEPT ![t].saveFailed = TRUE]
    /\ pc' = [pc EXCEPT ![t] = "gs_except"]
    /\ UNCHANGED << authVars, catalog, providerUp, dist, hasService, service, objs,
                    submissions, served, call >>

\* lines 49-54: makedirs or save_local raises, leaving the directory as it was or
\* half written; the except branch logs it; __init__ returns
SaveFail(t) ==
    /\ pc[t] = "save"
    /\ cache' \in {cache, CorruptCache}
    /\ objs' = [objs EXCEPT ![t].constructed = TRUE]
    /\ local' = [local EXCEPT ![t].saveFailed = TRUE]
    /\ pc' = [pc EXCEPT ![t] = "gs_assign"]
    /\ UNCHANGED << authVars, catalog, providerUp, dist, hasService, service,
                    submissions, served, call >>

----------------------------------------------------------------------------
(* get_recommendation_service, after the constructor *)

\* views.py line 24: the constructed object is stored
AssignService(t) ==
    /\ pc[t] = "gs_assign"
    /\ hasService' = TRUE
    /\ service' = Some(t)
    /\ pc' = [pc EXCEPT ![t] = "gs_return"]
    /\ UNCHANGED << authVars, catalog, cache, providerUp, dist, objs, local, submissions, served, call >>

\* AssignNone storing the object whose constructor raised instead of None
AssignNone_storesObject(t) ==
    /\ pc[t] = "gs_except"
    /\ hasService' = TRUE
    /\ service' = Some(t)
    /\ pc' = [pc EXCEPT ![t] = "gs_return"]
    /\ UNCHANGED << authVars, catalog, cache, providerUp, dist, objs, local, submissions, served, call >>

\* views.py lines 25-27: the constructor raised; None is stored
AssignNone(t) ==
    /\ pc[t] = "gs_except"
    /\ hasService' = TRUE
    /\ service' = None
    /\ pc' = [pc EXCEPT ![t] = "gs_return"]
    /\ UNCHANGED << authVars, catalog, cache, providerUp, dist, objs, local, submissions, served, call >>

----------------------------------------------------------------------------
(* views.get_recommendations after get_recommendation_service returned *)

\* views.py line 86: if service is None
ServiceIsNone(svc) == svc = None

\* a or b on two optional str
Or(a, b) == IF TruthySeq(a) THEN a ELSE b

\* views.py lines 126-159: the dict sent to the client for one recommendation
Transform(rec) ==
    [ program_name     |-> Or(rec.course_name, rec.parent_course),
      country          |-> rec.country,
      tuition_fee_usd  |-> rec.tuition_usd,
      global_rank      |-> rec.global_rank,
      match_percentage |-> rec.match_percentage,
      reasoning        |-> rec.llm_reasoning,
      course_id        |-> rec.course_id,
      similarity_score |-> rec.similarity_score,
      relevance_score  |-> rec.relevance_score ]

\* a UserSubmission row as submission_serializer.save(user=...) creates it
NewSubmission(data) ==
    [ data |-> data, recommendations_count |-> 0, search_results |-> << >> ]

\* ViewNotReady with the submission row saved before the service is tested
ViewNotReady_savesSubmission(t) ==
    /\ pc[t] = "gs_return"
    /\ local[t].view = "recommend"
    /\ ServiceIsNone(service)
    /\ submissions' = Append(submissions, NewSubmission(local[t].data))
    /\ local' = [local EXCEPT ![t].service = service, ![t].status = 503,
                              ![t].submission = Some(Len(submissions) + 1)]
    /\ pc' = [pc EXCEPT ![t] = "done"]
    /\ UNCHANGED << authVars, catalog, cache, providerUp, dist, hasService, service, objs,
                    served, call >>

\* views.py line 28 and lines 85-91: get_recommendation_service returns the stored
\* attribute; it is None, the not-ready response
ViewNotReady(t) ==
    /\ pc[t] = "gs_return"
    /\ local[t].view = "recommend"
    /\ ServiceIsNone(service)
    /\ local' = [local EXCEPT ![t].service = service, ![t].status = 503]
    /\ pc' = [pc EXCEPT ![t] = "done"]
    /\ UNCHANGED << authVars, catalog, cache, providerUp, dist, hasService, service, objs,
                    submissions, served, call >>

\* views.py line 28 and lines 85-118: get_recommendation_service returns the stored
\* service; the submission row is saved when the serializer accepts the body, and
\* skipped (with a warning) when it does not
ViewSubmit(t) ==
    /\ pc[t] = "gs_return"
    /\ local[t].view = "recommend"
    /\ ~ServiceIsNone(service)
    /\ IF is_valid(local[t].data)
       THEN /\ submissions' = Append(submissions, NewSubmission(local[t].data))
            /\ local' = [local EXCEPT ![t].service = service,
                                      ![t].submission = Some(Len(submissions) + 1)]
       ELSE /\ submissions' = submissions
            /\ local' = [local EXCEPT ![t].service = service]
    /\ pc' = [pc EXCEPT ![t] = "view_recommend"]
    /\ UNCHANGED << authVars, catalog, cache, providerUp, dist, hasService, service, objs, served, call >>

\* views.py line 116 raises (the database rejects the row): lines 180-185 answer 500
ViewSubmitFail(t) ==
    /\ pc[t] = "gs_return"
    /\ local[t].view = "recommend"
    /\ ~ServiceIsNone(service)
    /\ is_valid(local[t].data)
    /\ local' = [local EXCEPT ![t].service = service, ![t].status = 500]
    /\ pc' = [pc EXCEPT ![t] = "done"]
    /\ UNCHANGED << authVars, catalog, cache, providerUp, dist, hasService, service, objs,
                    submissions, served, call >>

\* views.py lines 121-178: recommendations = service.get_recommendations(data); they
\* are transformed, stored in the request's submission row and answered with 200
ViewRecommend(t) ==
    /\ pc[t] = "view_recommend"
    /\ \E r \in { get_recommendations(objs[Val(local[t].service)], local[t].data,
                                       DEFAULT_TOP_K, dist, providerUp) } :
       LET transformed_recommendations ==
               [i \in 1..Len(r.ret) |-> Transform(r.ret[i])]
       IN  /\ local' = [local EXCEPT ![t].recommendations = r.ret,
                                     ![t].caught = r.caught,
                                     ![t].status = 200,
                                     ![t].body = transformed_recommendations]
           /\ submissions' =
                  IF local[t].submission # None
                  THEN [submissions EXCEPT
                           ![Val(local[t].submission)].recommendations_count =
                               Len(transformed_recommendations),
                           ![Val(local[t].submission)].search_results =
                               transformed_recommendations]
                  ELSE submissions
           /\ objs' = [objs EXCEPT ![Val(local[t].service)] = r.self]
    /\ pc' = [pc EXCEPT ![t] = "done"]
    /\ UNCHANGED << authVars, catalog, cache, providerUp, dist, hasService, service, served, call >>

\* the response is sent; the thread takes the next request
Finish(t) ==
    /\ pc[t] = "done"
    /\ local' = [local EXCEPT ![t] = InitLocal]
    /\ pc' = [pc EXCEPT ![t] = "idle"]
    /\ UNCHANGED << authVars, catalog, cache, providerUp, dist, hasService, service, objs,
                    submissions, served, call >>

\* the embedding provider goes down or comes back
ProviderFlip ==
    /\ providerUp' = ~providerUp
    /\ UNCHANGED << authVars, catalog, cache, dist, hasService, service, objs, pc, local,
                    submissions, served, call >>

Next ==
    \/ \E t \in Threads :
        \/ ReceiveRequest(t)
        \/ InitBegin(t)
        \/ RestoreLoaded(t)
        \/ RestoreCorrupt(t)
        \/ RestoreDataFail(t)
        \/ BuildDataFail(t)
        \/ BuildEmbedFail(t)
        \/ BuildOk(t)
        \/ SaveOk(t)
        \/ SaveFail(t)
        \/ AssignService(t)
        \/ AssignNone(t)
        \/ ViewNotReady(t)
        \/ ViewSubmit(t)
        \/ ViewSubmitFail(t)
        \/ ViewRecommend(t)
        \/ Finish(t)
    \/ ProviderFlip

Spec == Init /\ [][Next]_vars

----------------------------------------------------------------------------
(* Direct calls of the scorer: every metadata of the pool against every
   preferences of the pool *)

ScoreInit ==
    /\ AuthIdle
    /\ catalog = Dataset
    /\ cache = AbsentCache
    /\ providerUp = TRUE
    /\ dist = [q \in Queries |-> [i \in 1..NumCourses |-> 0]]
    /\ hasService = FALSE
    /\ service = None
    /\ objs = [t \in Threads |-> NoObject]
    /\ pc = [t \in Threads |-> "idle"]
    /\ local = [t \in Threads |-> InitLocal]
    /\ submissions = << >>
    /\ served = 0
    /\ \E md \in MetadataPool, p \in PreferencesPool :
           call = [fn |-> "calculate_match_percentage", md |-> md, p |-> p,
                   done |-> FALSE, total |-> 0, earned |-> 0, out |-> Rat(0, 1),
                   points |-> << >>, reasoning |-> None]

\* lines 181-186: match_percentage = self._calculate_match_percentage(doc.metadata,
\* user_preferences), then llm_reasoning = self._generate_fallback_reasoning(...);
\* points, total and earned are the scorer's locals when it returns
ScoreCall ==
    /\ call.fn = "calculate_match_percentage"
    /\ ~call.done
    /\ call' = [call EXCEPT !.done = TRUE,
                            !.total = total_points(call.md, call.p),
                            !.earned = match_points(call.md, call.p),
                            !.out = calculate_match_percentage(call.md, call.p),
                            !.points = CategoryPoints(call.md, call.p),
                            !.reasoning = generate_fallback_reasoning(
                                call.md, call.p,
                                calculate_match_percentage(call.md, call.p))]
    /\ UNCHANGED << authVars, catalog, cache, providerUp, dist, hasService, service, objs, pc, local,
                    submissions, served >>

ScoreNext == ScoreCall

ScoreSpec == ScoreInit /\ [][ScoreNext]_vars

----------------------------------------------------------------------------
(* Direct calls of get_recommendations on an initialized service: a call with
   top_k, then a second call on the same object with top_k or top_k + 1 *)

\* the catalog the ranker is tried on
RankCatalog == AllRows

NoPreferences ==
    [ desired_program        |-> None,
      program_level          |-> None,
      program_type           |-> None,
      preferred_countries    |-> None,
      preferred_locations    |-> None,
      university_types       |-> None,
      max_tuition_usd        |-> None,
      min_global_rank        |-> None,
      additional_preferences |-> None,
      gpa                    |-> None ]

\* full preferences, none, and a country alone (two courses match it equally)
RankPreferences ==
    { BasePreferences, NoPreferences,
      [NoPreferences EXCEPT !.preferred_countries = Some(<< Str_US >>)] }

\* top_k as callers pass it (create_cache.py passes 3), and the values the index
\* rejects
RankTopKs == {-1, 0, 1, 2}

RankService ==
    [NewObject EXCEPT !.vector_store = Some(BuildIndex(RankCatalog)),
                      !.university_data = Some(RankCatalog),
                      !.constructed = TRUE]

NoResult == [ret |-> << >>, caught |-> FALSE, self |-> NoObject,
             k |-> 0, similar_docs |-> << >>, ranked |-> << >>]

RankInit ==
    /\ AuthIdle
    /\ catalog = RankCatalog
    /\ cache = AbsentCache
    /\ providerUp \in BOOLEAN
    /\ dist = [q \in Queries |-> [i \in 1..NumCourses |-> 0]]
    /\ hasService = FALSE
    /\ service = None
    /\ objs = [t \in Threads |-> NoObject]
    /\ pc = [t \in Threads |-> "idle"]
    /\ local = [t \in Threads |-> InitLocal]
    /\ submissions = << >>
    /\ served = 0
    /\ \E p \in RankPreferences, top_k \in RankTopKs,
          d \in [1..Len(RankCatalog) -> Distances] :
           call = [fn |-> "get_recommendations", self |-> RankService, p |-> p,
                   top_k |-> top_k, d |-> d, calls |-> 0,
                   first |-> NoResult, again_top_k |-> top_k, second |-> NoResult]

\* the index's answer to the one query of the call
RankDist == [q \in {create_query_from_preferences(call.p)} |-> call.d]

\* service.get_recommendations(p, top_k)
RankCall ==
    /\ call.fn = "get_recommendations"
    /\ call.calls = 0
    /\ \E r \in { get_recommendations(call.self, call.p, call.top_k, RankDist,
                                       providerUp) } :
           call' = [call EXCEPT !.calls = 1, !.first = r, !.self = r.self]
    /\ UNCHANGED << authVars, catalog, cache, providerUp, dist, hasService, service, objs, pc,
                    local, submissions, served >>

\* a second call on the object the first call left, with the same preferences
RankAgain ==
    /\ call.fn = "get_recommendations"
    /\ call.calls = 1
    /\ \E top_k \in {call.top_k, call.top_k + 1} :
       \E r \in { get_recommendations(call.self, call.p, top_k, RankDist,
                                       providerUp) } :
           call' = [call EXCEPT !.calls = 2, !.second = r, !.self = r.self,
                                !.again_top_k = top_k]
    /\ UNCHANGED << authVars, catalog, cache, providerUp, dist, hasService, service, objs, pc,
                    local, submissions, served >>

RankNext == RankCall \/ RankAgain

RankSpec == RankInit /\ [][RankNext]_vars

----------------------------------------------------------------------------
(* The server with the readiness probe: views.health_check next to
   views.get_recommendations *)

\* the dataset with no parent-course name in any row
NamelessDataset ==
    [i \in 1..Len(Dataset) |-> [Dataset[i] EXCEPT !.parent_course_name = None]]

\* views.py line 35 and line 22: a health request arrives and
\* get_recommendation_service tests hasattr
ReceiveHealth(t) ==
    /\ pc[t] = "idle"
    /\ served < MaxRequests
    /\ local' = [local EXCEPT ![t] = [InitLocal EXCEPT !.view = "health"]]
    /\ served' = served + 1
    /\ pc' = [pc EXCEPT ![t] = IF ~hasService THEN "init" ELSE "gs_return"]
    /\ UNCHANGED << authVars, catalog, cache, providerUp, dist, hasService, service, objs,
                    submissions, call >>

\* views.py lines 35-44: the stored attribute is None; 503 with ready False
HealthNotReady(t) ==
    /\ pc[t] = "gs_return"
    /\ local[t].view = "health"
    /\ ServiceIsNone(service)
    /\ local' = [local EXCEPT ![t].service = service, ![t].status = 503,
                              ![t].ready = FALSE]
    /\ pc' = [pc EXCEPT ![t] = "done"]
    /\ UNCHANGED << authVars, catalog, cache, providerUp, dist, hasService, service, objs,
                    submissions, served, call >>

\* views.py lines 35-65: the service is there; ready is whether
\* get_available_programs returns any program
HealthProbe(t) ==
    /\ pc[t] = "gs_return"
    /\ local[t].view = "health"
    /\ ~ServiceIsNone(service)
    /\ LET test_options == get_available_programs(objs[Val(service)])
           service_ready == Len(test_options) > 0
       IN  local' = [local EXCEPT ![t].service = service, ![t].status = 200,
                                  ![t].ready = service_ready]
    /\ pc' = [pc EXCEPT ![t] = "done"]
    /\ UNCHANGED << authVars, catalog, cache, providerUp, dist, hasService, service, objs,
                    submissions, served, call >>

\* the server on a dataset with or without parent-course names, the index
\* answering every query with all documents at distance 0
HealthInit ==
    /\ AuthIdle
    /\ catalog \in {Dataset, NamelessDataset}
    /\ cache \in {AbsentCache, CorruptCache, ValidCache(BuildIndex(catalog))}
    /\ providerUp \in BOOLEAN
    /\ dist = [q \in Queries |-> [i \in 1..NumCourses |-> 0]]
    /\ hasService = FALSE
    /\ service = None
    /\ objs = [t \in Threads |-> NoObject]
    /\ pc = [t \in Threads |-> "idle"]
    /\ local = [t \in Threads |-> InitLocal]
    /\ submissions = << >>
    /\ served = 0
    /\ call = NoCall

HealthNext ==
    \/ Next
    \/ \E t \in Threads :
        \/ ReceiveHealth(t)
        \/ HealthNotReady(t)
        \/ HealthProbe(t)

HealthSpec == HealthInit /\ [][HealthNext]_vars

----------------------------------------------------------------------------
(* The authentication views alone: concurrent logins and password resets of one
   user, the recommendation server idle *)

\* the recommendation server before its first request, with nothing to choose
IdleServer ==
    /\ catalog = Dataset
    /\ cache = AbsentCache
    /\ providerUp = TRUE
    /\ dist = [q \in Queries |-> [i \in 1..NumCourses |-> 0]]
    /\ hasService = FALSE
    /\ service = None
    /\ objs = [t \in Threads |-> NoObject]
    /\ pc = [t \in Threads |-> "idle"]
    /\ local = [t \in Threads |-> InitLocal]
    /\ submissions = << >>
    /\ served = 0

AuthInit == IdleServer /\ call = NoCall /\ AuthIdle

AuthNext ==
    \E h \in AuthThreads :
        \/ LoginBegin(h)
        \/ LoginRecord(h)
        \/ LoginCount(h)
        \/ ResetRequestBegin(h)
        \/ ResetRequestSave(h)
        \/ ResetConfirmBegin(h)
        \/ ResetConfirmSave(h)
        \/ AuthFinish(h)

AuthSpec == AuthInit /\ [][AuthNext]_vars

----------------------------------------------------------------------------
(* Properties *)

Zero == Rat(0, 1)
Hundred == Rat(100, 1)
InUnitInterval(x) == RatLe(Zero, x) /\ RatLe(x, One)

\* the requests that have their response
Responded == {t \in Threads : pc[t] = "done"}
\* the requests whose response carries recommendations computed without an error
Answered == {t \in Responded : local[t].status = 200 /\ ~local[t].caught}

\* the threads inside UniversityRecommendationService.__init__
Constructing == {t \in Threads : pc[t] \in {"restore", "build", "save"}}

\* the index and catalog of a freshly initialized service
FreshIndex == BuildIndex(catalog)
FreshService ==
    [NewObject EXCEPT !.vector_store = Some(FreshIndex),
                      !.university_data = Some(catalog)]
Initialized(o) ==
    /\ o.constructed
    /\ o.vector_store = Some(FreshIndex)
    /\ o.university_data = Some(catalog)

\* C1: the match percentage of every metadata and preferences is a number from 0
\* to 100, and it is 0 (with no division by zero) when no category applies
C1_MatchPercentageBounds ==
    (call.fn = "calculate_match_percentage" /\ call.done) =>
        /\ call.out.d > 0
        /\ RatLe(Zero, call.out)
        /\ RatLe(call.out, Hundred)
        /\ (call.total = 0 => call.out = Zero)

\* C1 witness: a scored call once with no applicable category, i.e. total_points = 0
C1_Witness ==
    /\ call.fn = "calculate_match_percentage"
    /\ call.done
    /\ call.total = 0
    /\ call.p.max_tuition_usd # None

\* C2: every recommendation's relevance_score is
\* (match_percentage / 100 + (1 - similarity_score)) / 2
C2_RelevanceBlendsNormalisedMatch ==
    \A t \in Responded : \A i \in 1..Len(local[t].recommendations) :
        LET rec == local[t].recommendations[i]
        IN  RatEq(rec.relevance_score,
                  RatDiv(RatAdd(RatDiv(rec.match_percentage, 100),
                                RatSub(One, rec.similarity_score)), 2))

\* C3: a recommendation whose similarity_score is in [0,1] has its relevance_score
\* in [0,1]
C3_RelevanceInUnitInterval ==
    \A t \in Responded : \A i \in 1..Len(local[t].recommendations) :
        LET rec == local[t].recommendations[i]
        IN  InUnitInterval(rec.similarity_score) => InUnitInterval(rec.relevance_score)

\* C4: a request whose get_recommendations call failed in one of its steps is not
\* answered as a success (200 with a list of recommendations)
C4_FailureIsNotSuccess ==
    \A t \in Responded : local[t].caught => local[t].status # 200

\* C5: at most one construction of the service is in progress at a time, and at
\* most one build is ever started
C5_SingleFlight ==
    /\ Cardinality(Constructing) <= 1
    /\ Cardinality({t \in Threads : objs[t].built}) <= 1

\* C6: a call of get_recommendation_service made after an initialization failed
\* (None is stored) starts a new initialization attempt
C6_FailedInitIsRetried ==
    [][\A t \in Threads :
          (pc[t] = "idle" /\ pc'[t] # "idle" /\ hasService /\ service = None)
              => pc'[t] = "init"]_vars

\* C7: service.get_recommendations is only invoked on a service whose constructor
\* has returned with the index fully restored or built, and a request that got no
\* service is answered 503
C7_NoRecommendationBeforeInit ==
    \A t \in Threads :
        /\ (pc[t] = "view_recommend" \/ (pc[t] = "done" /\ local[t].status = 200)) =>
               /\ local[t].service # None
               /\ Initialized(objs[Val(local[t].service)])
        /\ (pc[t] = "done" /\ local[t].service = None) => local[t].status = 503

\* C7 witness: a request is about to call get_recommendations while another
\* thread is still building its own service object
C7_Witness ==
    \E t, u \in Threads :
        /\ pc[t] = "view_recommend"
        /\ pc[u] = "build"

\* C8: after a failed restore the constructor goes on to build: it raises only if
\* the build itself fails, and when the build succeeds the service is initialized
C8_RestoreFailureFallsBackToBuild ==
    \A t \in Threads : local[t].restoreFailed =>
        /\ pc[t] = "gs_except" => local[t].build = "failed"
        /\ local[t].build = "ok" =>
               /\ objs[t].vector_store = Some(FreshIndex)
               /\ objs[t].university_data = Some(catalog)
               /\ pc[t] # "gs_except"
               /\ pc[t] # "save" => Initialized(objs[t])

\* C8 witness: the cache was there but unreadable, the build succeeded, and the
\* request is served by the service built in its place
C8_Witness ==
    \E t \in Threads :
        /\ local[t].restoreFailed
        /\ local[t].build = "ok"
        /\ pc[t] = "view_recommend"
        /\ local[t].service = Some(t)

\* C9: when saving the built index fails the constructor still returns an
\* initialized service, and a request served by it gets its recommendations from
\* the index in memory
C9_PersistIsBestEffort ==
    \A t \in Threads : local[t].saveFailed =>
        /\ Initialized(objs[t])
        /\ pc[t] \in {"gs_assign", "gs_return", "view_recommend", "done"}
        /\ (t \in Answered /\ local[t].service = Some(t)) =>
               Len(local[t].recommendations) = Min(DEFAULT_TOP_K, Len(catalog))

\* C9 witness: the save failed, no readable cache exists, and the request was
\* answered with recommendations by the service it built
C9_Witness ==
    \E t \in Threads :
        /\ local[t].saveFailed
        /\ cache.state # "valid"
        /\ t \in Answered
        /\ local[t].service = Some(t)
        /\ local[t].recommendations # << >>

\* C10: get_recommendations leaves the catalog and the index as the constructor
\* left them, whether it succeeds or fails, and every successful call returns what
\* the same call returns on a freshly initialized service
C10_RecommendLeavesIndexUnchanged ==
    /\ \A o \in Threads : objs[o].constructed => Initialized(objs[o])
    /\ \A t \in Answered :
           local[t].recommendations =
               get_recommendations(FreshService, local[t].data, DEFAULT_TOP_K,
                                   dist, TRUE).ret

\* C10 witness: on one service object a call failed and a call of another thread
\* succeeded
C10_Witness ==
    \E t, u \in Responded :
        /\ local[t].caught
        /\ u \in Answered
        /\ local[u].recommendations # << >>
        /\ local[t].service = local[u].service

----------------------------------------------------------------------------
(* Properties of the scorer and of the reasoning *)

Scored1 == call.fn = "calculate_match_percentage" /\ call.done

\* the six categories, and the place of each in the order of the scorer
Categories == {"program", "level", "country", "university_type", "tuition", "rank"}
CategoryIndex(c) ==
    CASE c = "program" -> 1
      [] c = "level" -> 2
      [] c = "country" -> 3
      [] c = "university_type" -> 4
      [] c = "tuition" -> 5
      [] c = "rank" -> 6

\* what the scored call added for a category: << possible, earned >>
Points(c) == call.points[CategoryIndex(c)]
Possible(c) == Points(c)[1]
Earned(c) == Points(c)[2]

\* case-insensitive substring test on two optional str
ISubstring(sub, s) ==
    /\ s # None
    /\ \E i \in 0..(Len(Val(s)) - Len(Val(sub))) :
           \A j \in 1..Len(Val(sub)) :
               LowerChar(Val(s)[i + j]) = LowerChar(Val(sub)[j])

\* a preference field that is missing or holds the empty string or list
AbsentField(v) == v = None \/ Val(v) = << >>

\* the preferences name the program, the countries and the tuition ceiling only
OnlyProgramCountryTuition(p) ==
    /\ TruthySeq(p.desired_program)
    /\ TruthySeq(p.preferred_countries)
    /\ TruthyNum(p.max_tuition_usd)
    /\ AbsentField(p.program_level)
    /\ AbsentField(p.university_types)
    /\ p.min_global_rank = None

\* C11: a category whose preference field is absent adds nothing to earned and
\* nothing to possible, the percentage is earned over possible of the remaining
\* categories, and preferences naming only program, country and tuition, all three
\* matching, score 100 with 60 earned of 60 possible
C11_AbsentCategoryIsExcluded ==
    Scored1 =>
        /\ AbsentField(call.p.desired_program) => Points("program") = << 0, 0 >>
        /\ AbsentField(call.p.program_level) => Points("level") = << 0, 0 >>
        /\ AbsentField(call.p.preferred_countries) => Points("country") = << 0, 0 >>
        /\ AbsentField(call.p.university_types) =>
               Points("university_type") = << 0, 0 >>
        /\ call.p.max_tuition_usd = None => Points("tuition") = << 0, 0 >>
        /\ call.p.min_global_rank = None => Points("rank") = << 0, 0 >>
        /\ call.total = SumField(call.points, 1)
        /\ call.earned = SumField(call.points, 2)
        /\ call.total > 0 => RatEq(call.out, Rat(call.earned * 100, call.total))
        /\ ( /\ OnlyProgramCountryTuition(call.p)
             /\ Earned("program") = W_PROGRAM
             /\ Earned("country") = W_COUNTRY
             /\ Earned("tuition") = W_TUITION )
           => /\ call.earned = W_PROGRAM + W_COUNTRY + W_TUITION
              /\ call.total = W_PROGRAM + W_COUNTRY + W_TUITION
              /\ RatEq(call.out, Hundred)

\* C11 witness: program, country and tuition are the only preferences and all three
\* match the record, which also carries a level, a type and a rank
C11_Witness ==
    /\ Scored1
    /\ OnlyProgramCountryTuition(call.p)
    /\ call.earned = W_PROGRAM + W_COUNTRY + W_TUITION
    /\ call.md.program_type # None
    /\ call.md.university_type # None
    /\ call.md.global_rank # None

\* C12: every category whose preference field is present adds its weight to
\* possible, whatever the record holds; a tuition ceiling (a rank floor) against a
\* record without tuition (rank) adds 15 (10) to possible
C12_PresentCategoryIsPossible ==
    Scored1 =>
        /\ TruthySeq(call.p.desired_program) => Possible("program") = W_PROGRAM
        /\ TruthySeq(call.p.program_level) => Possible("level") = W_LEVEL
        /\ TruthySeq(call.p.preferred_countries) => Possible("country") = W_COUNTRY
        /\ TruthySeq(call.p.university_types) =>
               Possible("university_type") = W_UNIVERSITY_TYPE
        /\ TruthyNum(call.p.max_tuition_usd) => Possible("tuition") = W_TUITION
        /\ TruthyNum(call.p.min_global_rank) => Possible("rank") = W_RANK

\* no recognized preference field is set
NoPreferenceSet(p) ==
    /\ AbsentField(p.desired_program)
    /\ AbsentField(p.program_level)
    /\ AbsentField(p.preferred_countries)
    /\ AbsentField(p.university_types)
    /\ p.max_tuition_usd = None
    /\ p.min_global_rank = None

\* C13: with no recognized preference field set the match percentage is exactly 0
C13_NoPreferenceScoresZero ==
    (Scored1 /\ NoPreferenceSet(call.p)) => call.out = Zero

\* C13 witness: no preference is set and the record carries every attribute the
\* scorer reads
C13_Witness ==
    /\ Scored1
    /\ NoPreferenceSet(call.p)
    /\ call.md.parent_course # None
    /\ call.md.course_name # None
    /\ call.md.program_type # None
    /\ call.md.university_type # None
    /\ TruthyNum(call.md.tuition_usd)
    /\ call.md.global_rank # None

\* the preferences name the program only
OnlyProgram(p) ==
    /\ TruthySeq(p.desired_program)
    /\ AbsentField(p.program_level)
    /\ AbsentField(p.preferred_countries)
    /\ AbsentField(p.university_types)
    /\ p.max_tuition_usd = None
    /\ p.min_global_rank = None

\* C19: the program category is worth 25; it earns 25 when desired_program is a
\* case-insensitive substring of the parent-course name, otherwise 20 when it is one
\* of the course name, otherwise 0; a course-name-only match with no other
\* preference scores 80
C19_ProgramFullOrPartial ==
    (Scored1 /\ TruthySeq(call.p.desired_program)) =>
        /\ Possible("program") = W_PROGRAM
        /\ Earned("program") =
               IF ISubstring(call.p.desired_program, call.md.parent_course)
               THEN W_PROGRAM
               ELSE IF ISubstring(call.p.desired_program, call.md.course_name)
                    THEN W_PROGRAM_PARTIAL
                    ELSE 0
        /\ ( /\ OnlyProgram(call.p)
             /\ ~ISubstring(call.p.desired_program, call.md.parent_course)
             /\ ISubstring(call.p.desired_program, call.md.course_name) )
           => RatEq(call.out, Rat(80, 1))

\* C19 witness: the program is the only preference and it occurs, in another case,
\* in the course name but not in the parent-course name
C19_Witness ==
    /\ Scored1
    /\ OnlyProgram(call.p)
    /\ call.md.parent_course # None
    /\ ~ISubstring(call.p.desired_program, call.md.parent_course)
    /\ ISubstring(call.p.desired_program, call.md.course_name)
    /\ ~Contains(Val(call.p.desired_program), Val(call.md.course_name))
    /\ call.earned = W_PROGRAM_PARTIAL

\* the reason texts that state the attribute of a category
ReasonTexts(c) ==
    CASE c = "program" -> {"Perfect program match: "}
      [] c = "level" -> {}
      [] c = "country" -> {"Located in your preferred country: "}
      [] c = "university_type" -> {"University type matches: "}
      [] c = "tuition" -> {"Within your budget: $"}
      [] c = "rank" -> {"Meets your ranking criteria: #"}

\* C20: every category that earned points for a record has a reason in the
\* record's reasoning that states the matched attribute and its value
C20_EarnedCategoryHasReason ==
    Scored1 =>
        \A c \in Categories :
            Earned(c) > 0 =>
                \E i \in 1..Len(call.reasoning.reasons) :
                    /\ call.reasoning.reasons[i][1] \in ReasonTexts(c)
                    /\ call.reasoning.reasons[i][2] # None

----------------------------------------------------------------------------
(* Properties of the ranker *)

FirstDone == call.fn = "get_recommendations" /\ call.calls >= 1
BothDone == call.fn = "get_recommendations" /\ call.calls = 2

\* the place of a recommendation among the candidates as the index returned them
RetrievalPosition(similar_docs, rec) ==
    CHOOSE n \in 1..Len(similar_docs) : similar_docs[n].doc.course_id = rec.course_id

CourseIds(recs) == {recs[i].course_id : i \in 1..Len(recs)}

\* C14: the returned list is in descending relevance_score, and entries of equal
\* relevance_score are in the order the index returned them
C14_SortedStable ==
    FirstDone =>
        \A i, j \in 1..Len(call.first.ret) :
            i < j =>
                /\ RatLe(call.first.ret[j].relevance_score,
                         call.first.ret[i].relevance_score)
                /\ RatEq(call.first.ret[j].relevance_score,
                         call.first.ret[i].relevance_score)
                   => RetrievalPosition(call.first.similar_docs, call.first.ret[i])
                      < RetrievalPosition(call.first.similar_docs, call.first.ret[j])

\* C14 witness: the nearest candidate is not returned first, and the first two
\* returned entries have equal relevance
C14_Witness ==
    /\ FirstDone
    /\ Len(call.first.ret) >= 2
    /\ RatEq(call.first.ret[1].relevance_score, call.first.ret[2].relevance_score)
    /\ call.first.similar_docs[1].doc.course_id # call.first.ret[1].course_id

\* C15: a call with top_k >= 1 asks the index for 2 * top_k candidates and returns
\* the first top_k of the sorted candidates: min(top_k, retrieved) entries, each of
\* relevance at least that of every candidate cut
C15_WindowAndTruncation ==
    (FirstDone /\ call.top_k >= 1 /\ ~call.first.caught) =>
        LET r == call.first
            n == Min(call.top_k, Len(r.similar_docs))
        IN  /\ r.k = 2 * call.top_k
            /\ Len(r.similar_docs) = Min(2 * call.top_k, Len(RankCatalog))
            /\ Len(r.ranked) = Len(r.similar_docs)
            /\ CourseIds(r.ranked) =
                   {r.similar_docs[i].doc.course_id : i \in 1..Len(r.similar_docs)}
            /\ Len(r.ret) = n
            /\ r.ret = SubSeq(r.ranked, 1, n)
            /\ \A i \in 1..n : \A j \in (n + 1)..Len(r.ranked) :
                   RatLe(r.ranked[j].relevance_score, r.ret[i].relevance_score)

\* C15 witness: top_k = 1 retrieves two candidates and returns the farther one,
\* cutting the nearer
C15_Witness ==
    /\ FirstDone
    /\ call.top_k = 1
    /\ ~call.first.caught
    /\ Len(call.first.similar_docs) = 2
    /\ Len(call.first.ret) = 1
    /\ call.first.ret[1].course_id = call.first.similar_docs[2].doc.course_id

\* the candidates retrieved for top_k cover the results of the call with top_k + 1,
\* and no two results of equal relevance lie across position top_k
WindowCoversBoth ==
    /\ CourseIds(call.second.ret) \subseteq
           {call.first.similar_docs[i].doc.course_id :
                i \in 1..Len(call.first.similar_docs)}
    /\ Len(call.second.ret) > call.top_k =>
           ~RatEq(call.second.ret[call.top_k].relevance_score,
                  call.second.ret[call.top_k + 1].relevance_score)

\* C16: the first k results of a call with top_k = k + 1 are the results of the call
\* with top_k = k, when the retrieval window covers both and no tie crosses the
\* boundary
C16_PrefixStable ==
    ( /\ BothDone
      /\ call.top_k >= 1
      /\ call.again_top_k = call.top_k + 1
      /\ ~call.first.caught
      /\ ~call.second.caught
      /\ WindowCoversBoth )
    => call.first.ret
           = SubSeq(call.second.ret, 1, Min(call.top_k, Len(call.second.ret)))

\* C16 witness: the call with top_k + 1 retrieved more candidates than the call with
\* top_k, its results are covered by the smaller window, and the nearest candidate
\* is not the first result
C16_Witness ==
    /\ BothDone
    /\ call.top_k >= 1
    /\ call.again_top_k = call.top_k + 1
    /\ ~call.first.caught
    /\ ~call.second.caught
    /\ WindowCoversBoth
    /\ Len(call.first.similar_docs) < Len(call.second.similar_docs)
    /\ Len(call.second.ret) = call.top_k + 1
    /\ call.first.similar_docs[1].doc.course_id # call.first.ret[1].course_id

----------------------------------------------------------------------------
(* Properties of the server on an empty catalog *)

\* C18: with a zero-record catalog the service's construction does not fail for
\* want of documents, and a list answered with 200 is the empty list of a call that
\* did not fail
C18_EmptyCatalogServes ==
    catalog = << >> =>
        \A t \in Threads :
            /\ local[t].buildError # "no documents"
            /\ (pc[t] = "done" /\ local[t].status = 200) =>
                   /\ ~local[t].caught
                   /\ local[t].recommendations = << >>

----------------------------------------------------------------------------
(* The option lists alone: the two methods called on a service object *)

\* catalogs of up to MaxOptionRows records, names repeated, missing and empty
MaxOptionRows == 4

OptionRow(parent, country) ==
    Row(1, parent, None, Some(Str_ms), country, Some(Str_Public), None, None)

OptionRows ==
    { OptionRow(None, Some(Str_CA)),
      OptionRow(Some(<< >>), Some(Str_US)),
      OptionRow(Some(Str_Eng), Some(Str_CA)),
      OptionRow(Some(Str_Eng), Some(Str_US)),
      OptionRow(Some(Str_cS), Some(Str_US)),
      OptionRow(Some(Str_cS), Some(Str_CA)),
      OptionRow(Some(Str_Cs), None) }

RECURSIVE SeqsUpTo(_, _)
SeqsUpTo(S, n) ==
    IF n = 0 THEN { << >> }
    ELSE LET shorter == SeqsUpTo(S, n - 1)
         IN  shorter \cup { Append(q, x) : q \in shorter, x \in S }

OptionServices ==
    { NewObject }
    \cup { [NewObject EXCEPT !.university_data = Some(data), !.constructed = TRUE] :
              data \in SeqsUpTo(OptionRows, MaxOptionRows) }

OptionsInit ==
    /\ IdleServer
    /\ AuthIdle
    /\ \E self \in OptionServices :
           call = [fn |-> "get_available", self |-> self,
                   programs |-> None, countries |-> None]

\* service.get_available_programs()
OptionsPrograms ==
    /\ call.programs = None
    /\ call' = [call EXCEPT !.programs = Some(get_available_programs(call.self))]
    /\ UNCHANGED << authVars, catalog, cache, providerUp, dist, hasService, service,
                    objs, pc, local, submissions, served >>

\* service.get_available_countries()
OptionsCountries ==
    /\ call.countries = None
    /\ call' = [call EXCEPT !.countries = Some(get_available_countries(call.self))]
    /\ UNCHANGED << authVars, catalog, cache, providerUp, dist, hasService, service,
                    objs, pc, local, submissions, served >>

OptionsNext == OptionsPrograms \/ OptionsCountries

OptionsSpec == OptionsInit /\ [][OptionsNext]_vars

----------------------------------------------------------------------------
(* Properties of the option lists *)

\* the records of the called service's catalog
OptionData ==
    IF call.self.university_data = None THEN << >> ELSE Val(call.self.university_data)

\* the distinct non-empty values of a field, and how often a value occurs
FieldValues(field) ==
    { Val(OptionData[i][field]) :
          i \in { j \in 1..Len(OptionData) :
                     OptionData[j][field] # None /\ OptionData[j][field] # Some(<< >>) } }

Occurrences(field, v) ==
    Cardinality({ i \in 1..Len(OptionData) : OptionData[i][field] = Some(v) })

\* out lists every value of the field once, the more frequent first and values
\* of equal frequency in ascending string order
ByPopularity(out, field) ==
    /\ { out[i] : i \in 1..Len(out) } = FieldValues(field)
    /\ Len(out) = Cardinality(FieldValues(field))
    /\ \A i, j \in 1..Len(out) :
           i < j =>
               \/ Occurrences(field, out[i]) > Occurrences(field, out[j])
               \/ /\ Occurrences(field, out[i]) = Occurrences(field, out[j])
                  /\ StrLt(out[i], out[j])

\* C22: each option list holds every distinct non-empty value of its field exactly
\* once, ordered by descending number of occurrences, ties in ascending order
C22_OptionsByPopularity ==
    /\ call.programs # None => ByPopularity(Val(call.programs), "parent_course_name")
    /\ call.countries # None => ByPopularity(Val(call.countries), "country_name")

\* three programs listed, the first more frequent than the second, the second and
\* third equally frequent, from a catalog that names its most frequent program last
C22_Witness ==
    /\ call.fn = "get_available"
    /\ call.programs # None
    /\ call.countries # None
    /\ Len(Val(call.programs)) = 3
    /\ Occurrences("parent_course_name", Val(call.programs)[1]) = 2
    /\ Occurrences("parent_course_name", Val(call.programs)[2]) = 1
    /\ Occurrences("parent_course_name", Val(call.programs)[3]) = 1
    /\ OptionData[Len(OptionData)].parent_course_name = Some(Val(call.programs)[1])
    /\ Len(Val(call.countries)) = 2

----------------------------------------------------------------------------
(* The query synthesizer alone: _create_query_from_preferences called twice on
   one preferences dict *)

Str_Toronto == << "T", "o" >>
Str_Ai == << "a", "i" >>

QueryPreferences ==
    [ desired_program        : {None, Some(<< >>), Some(Str_Cs)},
      program_level          : {None, Some(Str_M)},
      program_type           : {None, Some(Str_ms)},
      preferred_countries    : {None, Some(<< >>), Some(<< Str_CA >>),
                                Some(<< Str_CA, Str_US >>)},
      preferred_locations    : {None, Some(<< Str_Toronto >>)},
      university_types       : {None, Some(<< Str_Public, Str_Private >>)},
      max_tuition_usd        : {None},
      min_global_rank        : {None},
      additional_preferences : {None, Some(Str_Ai)},
      gpa                    : {None} ]

QueryInit ==
    /\ IdleServer
    /\ AuthIdle
    /\ \E p \in QueryPreferences :
           call = [fn |-> "create_query_from_preferences", p |-> p, calls |-> 0,
                   query |-> << >>, again |-> << >>]

\* query = self._create_query_from_preferences(preferences)
QueryCall ==
    /\ call.calls = 0
    /\ call' = [call EXCEPT !.calls = 1,
                            !.query = create_query_from_preferences(call.p)]
    /\ UNCHANGED << authVars, catalog, cache, providerUp, dist, hasService, service,
                    objs, pc, local, submissions, served >>

\* the same call on the same dict
QueryAgain ==
    /\ call.calls = 1
    /\ call' = [call EXCEPT !.calls = 2,
                            !.again = create_query_from_preferences(call.p)]
    /\ UNCHANGED << authVars, catalog, cache, providerUp, dist, hasService, service,
                    objs, pc, local, submissions, served >>

QueryNext == QueryCall \/ QueryAgain

QuerySpec == QueryInit /\ [][QueryNext]_vars

----------------------------------------------------------------------------
(* Properties of the query synthesizer *)

\* the preference fields the query renders, in the order of the query text
QueryFields ==
    << "desired_program", "program_level", "program_type", "preferred_countries",
       "preferred_locations", "university_types", "additional_preferences" >>

QueryLabel(f) ==
    CASE f = "desired_program"        -> "Program: "
      [] f = "program_level"          -> "Level: "
      [] f = "program_type"           -> "Degree: "
      [] f = "preferred_countries"    -> "Countries: "
      [] f = "preferred_locations"    -> "Locations: "
      [] f = "university_types"       -> "University Types: "
      [] f = "additional_preferences" -> "Additional: "

ListFields == {"preferred_countries", "preferred_locations", "university_types"}

\* a field is present when it is given and not empty
PresentField(p, f) == p[f] # None /\ Val(p[f]) # << >>

\* the text of a present field's value: a list shows its items separated by ", "
ValueText(p, f) ==
    IF f \in ListFields THEN JoinStr(Val(p[f]), << ",", " " >>) ELSE Val(p[f])

\* the positions of a token in a text
PositionsOf(token, text) == { i \in 1..Len(text) : text[i] = token }

\* the present fields that come after the i-th field
LaterPresent(p, i) ==
    { j \in (i + 1)..Len(QueryFields) : PresentField(p, QueryFields[j]) }

\* the query text q renders the preferences p
RendersPreferences(p, q) ==
    /\ (\A i \in 1..Len(QueryFields) : ~PresentField(p, QueryFields[i])) => q = << >>
    /\ \A i \in 1..Len(QueryFields) :
           LET f == QueryFields[i]
               at == PositionsOf(QueryLabel(f), q)
           IN  IF ~PresentField(p, f)
               THEN at = {}
               ELSE /\ Cardinality(at) = 1
                    /\ \A a \in at :
                           LET v == ValueText(p, f)
                               end == a + Len(v)
                           IN  /\ end <= Len(q)
                               /\ SubSeq(q, a + 1, end) = v
                               /\ (\A j \in 1..(i - 1) :
                                       ~PresentField(p, QueryFields[j])) => a = 1
                               /\ IF LaterPresent(p, i) = {}
                                  THEN end = Len(q)
                                  ELSE /\ end + 2 <= Len(q)
                                       /\ q[end + 1] = " "
                                       /\ q[end + 2] =
                                              QueryLabel(QueryFields[
                                                  CHOOSE j \in LaterPresent(p, i) :
                                                      \A k \in LaterPresent(p, i) :
                                                          j <= k])

\* C21: the query holds, for each present field in the fixed order, its label
\* followed by its value, the fields separated by single spaces; an absent field's
\* label does not occur; a second call returns the same text
C21_QueryRendersPresentFields ==
    /\ call.calls >= 1 => RendersPreferences(call.p, call.query)
    /\ call.calls = 2 => call.again = call.query

\* a call with present and absent fields, a two-item list among them, made twice
C21_Witness ==
    /\ call.fn = "create_query_from_preferences"
    /\ call.calls = 2
    /\ PresentField(call.p, "desired_program")
    /\ ~PresentField(call.p, "program_level")
    /\ call.p.preferred_countries = Some(<< Str_CA, Str_US >>)
    /\ call.p.preferred_locations = None
    /\ PresentField(call.p, "additional_preferences")
    /\ call.query # << >>

----------------------------------------------------------------------------
(* Properties of the readiness probe *)

\* the health requests that have their response
HealthResponded == {t \in Responded : local[t].view = "health"}

\* the index of the service the request got is built: a recommendation request
\* that gets this service is accepted and served from it
IndexBuilt(t) ==
    /\ local[t].service # None
    /\ objs[Val(local[t].service)].constructed
    /\ objs[Val(local[t].service)].vector_store # None

\* C23: the ready flag of a health response is true exactly when the index is built
C23_ReadyIffIndexBuilt ==
    \A t \in HealthResponded : local[t].ready <=> IndexBuilt(t)

----------------------------------------------------------------------------
(* Properties of the all-or-nothing categories *)

\* what a category adds when its preference is present and the record has the
\* attribute: the weight to possible, and to earned when the test passes
FullOrNothing(c, weight, passes) ==
    Points(c) = << weight, IF passes THEN weight ELSE 0 >>

\* C25: each all-or-nothing category whose preference is present, on a record that
\* has the attribute, adds its weight to possible and the same weight to earned
\* iff its test passes; a number given as 0 is present
C25_AllOrNothingCategories ==
    Scored1 =>
        /\ (TruthySeq(call.p.program_level) /\ call.md.program_type # None) =>
               FullOrNothing("level", W_LEVEL,
                             ISubstring(call.p.program_level, call.md.program_type))
        /\ (TruthySeq(call.p.preferred_countries) /\ call.md.country # None) =>
               FullOrNothing("country", W_COUNTRY,
                             InList(Val(call.md.country),
                                    Val(call.p.preferred_countries)))
        /\ (TruthySeq(call.p.university_types) /\ call.md.university_type # None) =>
               FullOrNothing("university_type", W_UNIVERSITY_TYPE,
                             InList(Val(call.md.university_type),
                                    Val(call.p.university_types)))
        /\ (call.p.max_tuition_usd # None /\ call.md.tuition_usd # None) =>
               FullOrNothing("tuition", W_TUITION,
                             Val(call.md.tuition_usd) <= Val(call.p.max_tuition_usd))
        /\ (call.p.min_global_rank # None /\ call.md.global_rank # None) =>
               FullOrNothing("rank", W_RANK,
                             Val(call.md.global_rank) <= Val(call.p.min_global_rank))

\* C26: a tuition ceiling of 0 against a record with a tuition adds 15 to possible,
\* and a record whose tuition is 0 earns the 15 points under every ceiling
C26_ZeroIsPresent ==
    Scored1 =>
        /\ (call.p.max_tuition_usd = Some(0) /\ call.md.tuition_usd # None) =>
               Possible("tuition") = W_TUITION
        /\ (call.md.tuition_usd = Some(0) /\ call.p.max_tuition_usd # None) =>
               Points("tuition") = << W_TUITION, W_TUITION >>

----------------------------------------------------------------------------
(* Properties of the build, of the published service and of the submission rows *)

\* the objects whose _load_data ran to its end
BuildCompleted ==
    {t \in Threads : objs[t].built /\ (pc[t] = "save" \/ objs[t].constructed)}

\* the index holds one document for each record of the data, and no other
OneDocumentPerRecord(index, data) ==
    /\ Len(index) = Len(data)
    /\ \A i \in 1..Len(data) :
           Cardinality({ j \in 1..Len(index) :
                           index[j].course_id = data[i].university_course_id }) = 1

\* C24: after _load_data completes the index holds exactly one document per
\* catalog record, so its size is len(university_data)
C24_IndexSizeIsCatalogSize ==
    \A t \in BuildCompleted :
        /\ objs[t].university_data = Some(catalog)
        /\ objs[t].vector_store # None
        /\ OneDocumentPerRecord(Val(objs[t].vector_store), Val(objs[t].university_data))

\* a build over a catalog of several records completed, after a cache restore failed
C24_Witness ==
    \E t \in BuildCompleted :
        /\ Len(catalog) >= 2
        /\ Len(Val(objs[t].vector_store)) >= 2
        /\ local[t].build = "ok"
        /\ local[t].restoreFailed

\* the objects requests can see: the stored service and what
\* get_recommendation_service returned to a request
Published ==
    {t \in Threads : service = Some(t) \/ \E u \in Threads : local[u].service = Some(t)}

\* C27: an object whose initialization failed is never published, and every
\* published service has both vector_store and university_data set
C27_NoPartialServicePublished ==
    /\ \A t \in Published :
           /\ objs[t].vector_store # None
           /\ objs[t].university_data # None
    /\ \A t \in Threads :
           (local[t].build = "failed" /\ pc[t] \in {"gs_return", "view_recommend", "done"})
               => t \notin Published

\* a restore loaded the vector store, failed on the catalog, the rebuild failed too,
\* and the request was answered 503 with the half-set object left unpublished
C27_Witness ==
    \E t \in Threads :
        /\ local[t].restoreFailed
        /\ local[t].build = "failed"
        /\ objs[t].vector_store # None
        /\ objs[t].university_data = None
        /\ pc[t] = "done"
        /\ local[t].status = 503

\* the requests answered with the not-ready response
NotReady == {t \in Responded : local[t].status = 503}

\* C28: a submission row's recommendations_count is the length of its
\* search_results, which is the list the response carries; a request answered 503
\* has created no submission row
C28_SubmissionMatchesResponse ==
    /\ \A i \in 1..Len(submissions) :
           submissions[i].recommendations_count = Len(submissions[i].search_results)
    /\ \A t \in Responded :
           (local[t].status = 200 /\ local[t].submission # None) =>
               /\ submissions[Val(local[t].submission)].search_results = local[t].body
               /\ submissions[Val(local[t].submission)].recommendations_count =
                      Len(local[t].body)
    /\ \A t \in NotReady : local[t].submission = None
    /\ Len(submissions) + Cardinality(NotReady) <= served

\* one request answered with recommendations stored in its submission row while
\* another is answered 503
C28_Witness ==
    \E t \in Responded, u \in NotReady :
        /\ local[t].status = 200
        /\ local[t].submission # None
        /\ Len(local[t].body) >= 2
        /\ submissions[Val(local[t].submission)].recommendations_count >= 2

----------------------------------------------------------------------------
(* Properties of the authentication views *)

\* C29: a confirm finds the user only with a token that no completed confirm has
\* used and that is the last one generated for the user
C29_ResetTokenSingleUse ==
    \A h \in AuthThreads :
        (authreq[h].view = "reset_confirm"
            /\ (authreq[h].at = "confirm_found" \/ authreq[h].status = 200)) =>
            /\ ~authreq[h].afterUse
            /\ authreq[h].latest

\* C30: when no login is between its first and its last write, login_count equals
\* the number of LoginHistory rows
C30_LoginCountMatchesHistory ==
    (\A h \in AuthThreads : authreq[h].at \notin {"login_valid", "login_count"}) =>
        authdb.login_count = authdb.login_history

====
